---- MODULE Spec2Model ----
(***************************************************************************)
(* Model of the Global Accelerator accelerator resource                    *)
(* (aws/resource_aws_globalaccelerator_accelerator.go): the four lifecycle *)
(* handlers Create, Read, Update and Delete, the import passthrough, the   *)
(* state refresh function used while waiting, and the remote API they      *)
(* drive.  A lifecycle call is a sequence of steps (one remote call or one *)
(* poll each); pc is the position of the call in progress and calls is the *)
(* log of the remote calls it has issued so far.                           *)
(***************************************************************************)
EXTENDS Integers, Sequences, FiniteSets, TLC

VARIABLES
    id,       \* d.Id(): the persisted identifier, "" when unset
    state,    \* the persisted attributes of the resource
    prior,    \* the attributes persisted when the call in progress began
    desired,  \* the configuration handed to the call in progress
    plan,     \* the values d.Get returns during the call in progress
    remote,   \* the accelerator as the remote service holds it
    pc,       \* position of the lifecycle call in progress: "idle" if none,
              \* "done" when it has returned
    op,       \* the lifecycle call in progress, or the last one when idle
    err,      \* result of the last lifecycle call: "" is a nil error
    calls,    \* remote calls issued by the call in progress (or the last one)
    elapsed,  \* polls made by the wait in progress
    uniqueIds,\* number of identifiers resource.UniqueId has generated
    tokens    \* the idempotency tokens sent in create requests so far

vars == <<id, state, prior, desired, plan, remote, pc, op, err, calls, elapsed,
          uniqueIds, tokens>>

----------------------------------------------------------------------------
(* Bounds of the model. *)

\* Number of polls that fit in the timeout of a wait.
MaxPolls == 2

\* Number of Create calls in a behaviour.
MaxCreates == 2

\* Identifiers a record can be imported with, and the identifiers the remote
\* service hands out.
Ids == {"arn1", "arn2"}
CreatedIds == {"arn1"}

Names == {"a", "b"}

Buckets == {"b1"}

----------------------------------------------------------------------------
(* Values. *)

AcceleratorStatusInProgress == "IN_PROGRESS"
AcceleratorStatusDeployed == "DEPLOYED"
IpAddressTypeIpv4 == "IPV4"

\* aws.StringValue of a nil *string is "": a describe response that carries
\* no status shows as the empty status.
Statuses == {AcceleratorStatusInProgress, AcceleratorStatusDeployed, ""}

\* Pointers of a request or response: Nil is the nil pointer, Ptr(v) points
\* to v and Val(p) is the value a non-nil pointer points to.
Nil == <<>>
Ptr(v) == <<v>>
Val(p) == p[1]

\* The "attributes" list of the schema: at most one element.
AttributeElems == [flow_logs_enabled : BOOLEAN,
                   flow_logs_s3_bucket : Buckets,
                   flow_logs_s3_prefix : {""}]
AttributeLists == {<<>>} \cup {<<a>> : a \in AttributeElems}

\* The configurations a user can write.  ip_address_type "" is an omitted
\* optional field.
Configs == [name : Names, enabled : BOOLEAN,
            ip_address_type : {"", IpAddressTypeIpv4},
            attributes : AttributeLists]

\* The attributes of a record that has only an id (before create, after
\* import): every field reads as its zero value.
EmptyState == [name |-> "", enabled |-> FALSE, ip_address_type |-> "",
               attributes |-> <<>>]

\* The value of desired while no call with a configuration is in progress.
NoConfig == EmptyState

NoRemote == [exists |-> FALSE, id |-> "", name |-> "", enabled |-> FALSE,
             ip_address_type |-> Nil,
             attrs |-> [flow_logs_enabled |-> Ptr(FALSE),
                        flow_logs_s3_bucket |-> Nil,
                        flow_logs_s3_prefix |-> Nil]]

\* One remote call in the log: its kind, the identifier it carries, the
\* kind of its response, the status a describe observed, and in req the
\* fields of the request of a mutation or the attributes that
\* DescribeAcceleratorAttributes returned.
Call(c, i, r, s, q) == [call |-> c, id |-> i, res |-> r, status |-> s, req |-> q]

NoReq == [none |-> TRUE]

----------------------------------------------------------------------------
(* The schema: what counts as a change. *)

BoolStr(b) == IF b THEN "true" ELSE "false"

CountStr(l) == IF Len(l) = 0 THEN "0" ELSE "1"

\* The DiffSuppressFunc of "attributes": it is handed the flat key and the
\* old and new value as strings, and ignores the key.
DiffSuppressFunc(k, old, new) == old = "1" /\ new = "0"

\* A flat key of "attributes" is part of the diff when its value changes and
\* the change is not suppressed.
KeyInDiff(k, old, new) == old # new /\ ~DiffSuppressFunc(k, old, new)

\* d.Get("attributes") during an update of prior list old to configured
\* list new: the prior value with the unsuppressed differences applied.
PlannedAttributes(old, new) ==
    IF ~KeyInDiff("attributes.#", CountStr(old), CountStr(new))
       /\ CountStr(old) # CountStr(new)
    THEN old
    ELSE IF Len(new) = 0 \/ Len(old) = 0
    THEN new
    ELSE <<[flow_logs_enabled |->
              IF KeyInDiff("attributes.0.flow_logs_enabled",
                           BoolStr(old[1].flow_logs_enabled),
                           BoolStr(new[1].flow_logs_enabled))
              THEN new[1].flow_logs_enabled ELSE old[1].flow_logs_enabled,
            flow_logs_s3_bucket |->
              IF KeyInDiff("attributes.0.flow_logs_s3_bucket",
                           old[1].flow_logs_s3_bucket,
                           new[1].flow_logs_s3_bucket)
              THEN new[1].flow_logs_s3_bucket ELSE old[1].flow_logs_s3_bucket,
            flow_logs_s3_prefix |->
              IF KeyInDiff("attributes.0.flow_logs_s3_prefix",
                           old[1].flow_logs_s3_prefix,
                           new[1].flow_logs_s3_prefix)
              THEN new[1].flow_logs_s3_prefix ELSE old[1].flow_logs_s3_prefix]>>

\* The values d.Get returns for prior state st and configuration cfg.  An
\* omitted optional computed field keeps its prior value.
Planned(st, cfg) ==
    [name |-> cfg.name,
     enabled |-> cfg.enabled,
     ip_address_type |-> IF cfg.ip_address_type = "" THEN st.ip_address_type
                         ELSE cfg.ip_address_type,
     attributes |-> PlannedAttributes(st.attributes, cfg.attributes)]

\* d.HasChange(key), for prior state st and planned values pl.
HasChange(st, pl, key) == st[key] # pl[key]

\* Mutant: the base update is issued whether or not a base field changed.
BaseChanged_Always(st, pl) == TRUE

\* The condition of the base update: resourceAwsGlobalAcceleratorAcceleratorUpdate.
BaseChanged(st, pl) ==
    \/ HasChange(st, pl, "name")
    \/ HasChange(st, pl, "ip_address_type")
    \/ HasChange(st, pl, "enabled")

----------------------------------------------------------------------------
(* The remote API client. *)

\* The responses DescribeAccelerator can give for identifier i: the entity
\* with some status when the service holds it, the not-found error (also
\* while a fresh entity is not visible yet), or another error.
DescribeResponses(i) ==
    {[res |-> "notfound", status |-> ""], [res |-> "error", status |-> ""]}
    \cup {[res |-> "ok", status |-> s] :
            s \in IF remote.exists /\ remote.id = i THEN Statuses ELSE {}}

\* The responses DescribeAcceleratorAttributes can give: the attributes of
\* the entity, a response without attributes, or an error.
DescribeAttributesResponses ==
    {[res |-> "ok", attrs |-> Ptr(remote.attrs)], [res |-> "ok", attrs |-> Nil],
     [res |-> "error", attrs |-> Nil]}

\* The responses of a mutation of an existing entity.
MutationResponses(i) ==
    {"error"} \cup (IF remote.exists /\ remote.id = i THEN {"ok"} ELSE {})

\* The responses of DeleteAccelerator.
DeleteResponses(i) == MutationResponses(i) \cup {"notfound"}

----------------------------------------------------------------------------
(* Helpers of the resource. *)

\* Mutant: the not-found error is returned to the caller like any other.
resourceAwsGlobalAcceleratorAcceleratorRetrieve_PassNotFound(resp) ==
    IF resp.res # "ok"
    THEN [acc |-> Nil, err |-> resp.res]
    ELSE [acc |-> Ptr([name |-> remote.name, enabled |-> remote.enabled,
                       ip_address_type |-> remote.ip_address_type,
                       status |-> resp.status]),
          err |-> ""]

\* resourceAwsGlobalAcceleratorAcceleratorRetrieve: (accelerator, err).
\* The not-found error is converted to a nil accelerator and a nil error.
resourceAwsGlobalAcceleratorAcceleratorRetrieve(resp) ==
    IF resp.res # "ok"
    THEN IF resp.res = "notfound"
         THEN [acc |-> Nil, err |-> ""]
         ELSE [acc |-> Nil, err |-> resp.res]
    ELSE [acc |-> Ptr([name |-> remote.name, enabled |-> remote.enabled,
                       ip_address_type |-> remote.ip_address_type,
                       status |-> resp.status]),
          err |-> ""]

\* Mutant: the refresh function reports an error of the describe call as an
\* entity that is not visible yet.
resourceAwsGlobalAcceleratorAcceleratorStateRefreshFunc_SwallowError(resp) ==
    LET r == resourceAwsGlobalAcceleratorAcceleratorRetrieve(resp)
    IN  IF r.err # ""
        THEN [result |-> Nil, state |-> "", err |-> ""]
        ELSE IF r.acc = Nil
        THEN [result |-> Nil, state |-> "", err |-> ""]
        ELSE [result |-> r.acc, state |-> Val(r.acc).status, err |-> ""]

\* Mutant: the refresh function reports the entity without its status.
resourceAwsGlobalAcceleratorAcceleratorStateRefreshFunc_NoStatus(resp) ==
    LET r == resourceAwsGlobalAcceleratorAcceleratorRetrieve(resp)
    IN  IF r.err # ""
        THEN [result |-> Nil, state |-> "", err |-> r.err]
        ELSE IF r.acc = Nil
        THEN [result |-> Nil, state |-> "", err |-> ""]
        ELSE [result |-> r.acc, state |-> "", err |-> ""]

\* resourceAwsGlobalAcceleratorAcceleratorStateRefreshFunc: (result, state, err)
resourceAwsGlobalAcceleratorAcceleratorStateRefreshFunc(resp) ==
    LET r == resourceAwsGlobalAcceleratorAcceleratorRetrieve(resp)
    IN  IF r.err # ""
        THEN [result |-> Nil, state |-> "", err |-> r.err]
        ELSE IF r.acc = Nil
        THEN [result |-> Nil, state |-> "", err |-> ""]
        ELSE [result |-> r.acc, state |-> Val(r.acc).status, err |-> ""]

\* aws.BoolValue and aws.StringValue: the zero value for a nil pointer.
BoolValue(p) == IF p = Nil THEN FALSE ELSE Val(p)
StringValue(p) == IF p = Nil THEN "" ELSE Val(p)

\* Mutant: the bucket and the prefix are exchanged.
resourceAwsGlobalAcceleratorAcceleratorFlattenAttributes_Swapped(attributes) ==
    IF attributes = Nil
    THEN <<>>
    ELSE <<[flow_logs_enabled |-> BoolValue(Val(attributes).flow_logs_enabled),
            flow_logs_s3_bucket |-> StringValue(Val(attributes).flow_logs_s3_prefix),
            flow_logs_s3_prefix |-> StringValue(Val(attributes).flow_logs_s3_bucket)]>>

\* resourceAwsGlobalAcceleratorAcceleratorFlattenAttributes
resourceAwsGlobalAcceleratorAcceleratorFlattenAttributes(attributes) ==
    IF attributes = Nil
    THEN <<>>
    ELSE <<[flow_logs_enabled |-> BoolValue(Val(attributes).flow_logs_enabled),
            flow_logs_s3_bucket |-> StringValue(Val(attributes).flow_logs_s3_bucket),
            flow_logs_s3_prefix |-> StringValue(Val(attributes).flow_logs_s3_prefix)]>>

\* The request resourceAwsGlobalAcceleratorAcceleratorUpdateAttributes builds
\* from the element of the "attributes" list.  The map d.Get returns holds a
\* value (possibly the zero value) for every field of the element, so the
\* bucket and the prefix are always sent.
UpdateAttributesInput(attributes) ==
    [flow_logs_enabled |-> Ptr(attributes.flow_logs_enabled),
     flow_logs_s3_bucket |-> Ptr(attributes.flow_logs_s3_bucket),
     flow_logs_s3_prefix |-> Ptr(attributes.flow_logs_s3_prefix)]

\* The effect of a successful UpdateAcceleratorAttributes on the entity: a
\* field the request omits keeps its value.
ApplyAttributes(old, req) ==
    [f \in DOMAIN old |-> IF req[f] = Nil THEN old[f] ELSE req[f]]

\* Mutant: the request carries only the fields that differ from the
\* persisted state.
BaseInput_ChangedOnly(pl) ==
    [name |-> IF HasChange(state, pl, "name") THEN Ptr(pl.name) ELSE Nil,
     enabled |-> IF HasChange(state, pl, "enabled") THEN Ptr(pl.enabled) ELSE Nil,
     ip_address_type |-> IF HasChange(state, pl, "ip_address_type")
                         THEN Ptr(pl.ip_address_type) ELSE Nil]

\* Mutant: the request carries the persisted name instead of the planned one.
BaseInput_Stale(pl) ==
    [name |-> Ptr(state.name), enabled |-> Ptr(pl.enabled),
     ip_address_type |-> IF pl.ip_address_type # ""
                         THEN Ptr(pl.ip_address_type) ELSE Nil]

\* The request of CreateAccelerator and of UpdateAccelerator: name and
\* enabled are always sent, ip_address_type when d.GetOk finds a non-zero
\* value.
BaseInput(pl) ==
    [name |-> Ptr(pl.name), enabled |-> Ptr(pl.enabled),
     ip_address_type |-> IF pl.ip_address_type # ""
                         THEN Ptr(pl.ip_address_type) ELSE Nil]

\* resource.UniqueId: the n-th identifier generated, a fresh value each time.
UniqueId(n) == "terraform-" \o ToString(n)

\* Mutant: the idempotency token is derived from the name.
CreateInput_TokenFromName(pl, n) ==
    [name |-> BaseInput(pl).name,
     enabled |-> BaseInput(pl).enabled,
     ip_address_type |-> BaseInput(pl).ip_address_type,
     idempotency_token |-> Ptr("terraform-" \o pl.name)]

\* The request of CreateAccelerator, built when n identifiers have been
\* generated before: the base fields and a fresh idempotency token.
CreateInput(pl, n) ==
    [name |-> BaseInput(pl).name,
     enabled |-> BaseInput(pl).enabled,
     ip_address_type |-> BaseInput(pl).ip_address_type,
     idempotency_token |-> Ptr(UniqueId(n + 1))]

\* Mutant: a failure of DescribeAcceleratorAttributes is treated like an
\* absent accelerator.
ReadResult_AttributesAbsent(i, oldId, base, persisted, o, a) ==
    LET r  == resourceAwsGlobalAcceleratorAcceleratorRetrieve(o)
        c1 == Call("describe", i, o.res, o.status, NoReq)
        c2 == Call("describeAttributes", i, a.res, "", [attrs |-> a.attrs])
    IN  IF r.err # ""
        THEN IF r.err = "notfound"
             THEN [err |-> "", id |-> "", state |-> EmptyState, calls |-> <<c1>>]
             ELSE [err |-> "ReadFailed", id |-> i, state |-> base, calls |-> <<c1>>]
        ELSE IF r.acc = Nil
        THEN [err |-> "Panic", id |-> oldId, state |-> persisted, calls |-> <<c1>>]
        ELSE LET b == [base EXCEPT !.name = Val(r.acc).name,
                                   !.ip_address_type =
                                       StringValue(Val(r.acc).ip_address_type),
                                   !.enabled = Val(r.acc).enabled]
             IN  IF a.res # "ok"
                 THEN [err |-> "", id |-> "", state |-> EmptyState,
                       calls |-> <<c1, c2>>]
                 ELSE [err |-> "", id |-> i,
                       state |-> [b EXCEPT !.attributes =
                           resourceAwsGlobalAcceleratorAcceleratorFlattenAttributes(a.attrs)],
                       calls |-> <<c1, c2>>]

\* resourceAwsGlobalAcceleratorAcceleratorRead on identifier i, where base
\* holds the attributes of d before the read, o is the response of
\* DescribeAccelerator, a the response of DescribeAcceleratorAttributes and
\* oldId the identifier persisted before the lifecycle call began.  The
\* result is the error returned, the identifier and attributes persisted
\* afterwards and the calls made.  Reading a field of the nil accelerator
\* is a nil pointer dereference: the handler panics and nothing of d is
\* persisted.
ReadResult(i, oldId, base, persisted, o, a) ==
    LET r  == resourceAwsGlobalAcceleratorAcceleratorRetrieve(o)
        c1 == Call("describe", i, o.res, o.status, NoReq)
        c2 == Call("describeAttributes", i, a.res, "", [attrs |-> a.attrs])
    IN  IF r.err # ""
        THEN IF r.err = "notfound"
             THEN [err |-> "", id |-> "", state |-> EmptyState, calls |-> <<c1>>]
             ELSE [err |-> "ReadFailed", id |-> i, state |-> base, calls |-> <<c1>>]
        ELSE IF r.acc = Nil
        THEN [err |-> "Panic", id |-> oldId, state |-> persisted, calls |-> <<c1>>]
        ELSE LET b == [base EXCEPT !.name = Val(r.acc).name,
                                   !.ip_address_type =
                                       StringValue(Val(r.acc).ip_address_type),
                                   !.enabled = Val(r.acc).enabled]
             IN  IF a.res # "ok"
                 THEN [err |-> "ReadAttributesFailed", id |-> i, state |-> b,
                       calls |-> <<c1, c2>>]
                 ELSE [err |-> "", id |-> i,
                       state |-> [b EXCEPT !.attributes =
                           resourceAwsGlobalAcceleratorAcceleratorFlattenAttributes(a.attrs)],
                       calls |-> <<c1, c2>>]

----------------------------------------------------------------------------
(* Initial state: nothing created, nothing persisted. *)

Init ==
    /\ id = ""
    /\ state = EmptyState
    /\ prior = EmptyState
    /\ desired = NoConfig
    /\ plan = EmptyState
    /\ remote = NoRemote
    /\ pc = "idle"
    /\ op = "none"
    /\ err = ""
    /\ calls = <<>>
    /\ elapsed = 0
    /\ uniqueIds = 0
    /\ tokens = {}

\* A lifecycle call returns error e.
Return(e) ==
    /\ pc' = "done"
    /\ err' = e
    /\ elapsed' = 0

\* The framework takes the result of the call that returned; the next
\* lifecycle call of the resource can begin.  Lifecycle calls of one resource
\* never overlap.
Finish ==
    /\ pc = "done"
    /\ pc' = "idle"
    /\ op' = "none"
    /\ err' = ""
    /\ calls' = <<>>
    /\ plan' = EmptyState
    /\ prior' = EmptyState
    /\ desired' = NoConfig
    /\ UNCHANGED <<id, state, remote, elapsed>>
    /\ UNCHANGED <<uniqueIds, tokens>>

----------------------------------------------------------------------------
(* Import: schema.ImportStatePassthrough seeds a record from an id alone. *)

Import(i) ==
    /\ pc = "idle"
    /\ id = ""
    /\ id' = i
    /\ state' = EmptyState
    /\ plan' = EmptyState
    /\ op' = "Import"
    /\ calls' = <<>>
    /\ Return("")
    /\ UNCHANGED <<remote, prior, desired>>
    /\ UNCHANGED <<uniqueIds, tokens>>

----------------------------------------------------------------------------
(* resourceAwsGlobalAcceleratorAcceleratorCreate, up to the wait. *)

\* Mutant: the id is taken from the name of the request, not from the
\* identifier of the response.
CreateCall_IdFromName(cfg, r, i) ==
    /\ pc = "idle"
    /\ id = ""
    /\ uniqueIds < MaxCreates
    /\ LET pl  == Planned(EmptyState, cfg)
           req == CreateInput(pl, uniqueIds)
       IN  /\ plan' = pl
           /\ uniqueIds' = uniqueIds + 1
           /\ tokens' = tokens \cup {Val(req.idempotency_token)}
           /\ prior' = EmptyState
           /\ desired' = cfg
           /\ op' = "Create"
           /\ calls' = <<Call("create", "", r, "", req)>>
           /\ IF r # "ok"
              THEN /\ Return("CreateFailed")
                   /\ UNCHANGED <<id, state, remote>>
              ELSE /\ id' = StringValue(req.name)
                   /\ remote' = [exists |-> TRUE, id |-> i,
                                 name |-> StringValue(req.name),
                                 enabled |-> IF req.enabled = Nil THEN TRUE
                                             ELSE Val(req.enabled),
                                 ip_address_type |-> Ptr(IpAddressTypeIpv4),
                                 attrs |-> NoRemote.attrs]
                   /\ pc' = "wait"
                   /\ elapsed' = 0
                   /\ err' = ""
                   /\ UNCHANGED state

\* Mutant: the error of the create call is not checked.
CreateCall_IgnoreError(cfg, r, i) ==
    /\ pc = "idle"
    /\ id = ""
    /\ uniqueIds < MaxCreates
    /\ LET pl  == Planned(EmptyState, cfg)
           req == CreateInput(pl, uniqueIds)
       IN  /\ plan' = pl
           /\ uniqueIds' = uniqueIds + 1
           /\ tokens' = tokens \cup {Val(req.idempotency_token)}
           /\ prior' = EmptyState
           /\ desired' = cfg
           /\ op' = "Create"
           /\ calls' = <<Call("create", "", r, "", req)>>
           /\ IF r # "ok"
              THEN /\ pc' = "wait"
                   /\ elapsed' = 0
                   /\ err' = ""
                   /\ UNCHANGED <<id, state, remote>>
              ELSE /\ id' = i
                   /\ remote' = [exists |-> TRUE, id |-> i,
                                 name |-> StringValue(req.name),
                                 enabled |-> IF req.enabled = Nil THEN TRUE
                                             ELSE Val(req.enabled),
                                 ip_address_type |-> Ptr(IpAddressTypeIpv4),
                                 attrs |-> NoRemote.attrs]
                   /\ pc' = "wait"
                   /\ elapsed' = 0
                   /\ err' = ""
                   /\ UNCHANGED state

CreateCall(cfg, r, i) ==
    /\ pc = "idle"
    /\ id = ""
    /\ uniqueIds < MaxCreates
    /\ LET pl  == Planned(EmptyState, cfg)
           req == CreateInput(pl, uniqueIds)
       IN  /\ plan' = pl
           /\ uniqueIds' = uniqueIds + 1
           /\ tokens' = tokens \cup {Val(req.idempotency_token)}
           /\ prior' = EmptyState
           /\ desired' = cfg
           /\ op' = "Create"
           /\ calls' = <<Call("create", "", r, "", req)>>
           /\ IF r # "ok"
              THEN /\ Return("CreateFailed")
                   /\ UNCHANGED <<id, state, remote>>
              ELSE /\ id' = i
                   /\ remote' = [exists |-> TRUE, id |-> i,
                                 name |-> StringValue(req.name),
                                 enabled |-> IF req.enabled = Nil THEN TRUE
                                             ELSE Val(req.enabled),
                                 ip_address_type |-> Ptr(IpAddressTypeIpv4),
                                 attrs |-> NoRemote.attrs]
                   /\ pc' = "wait"
                   /\ elapsed' = 0
                   /\ err' = ""
                   /\ UNCHANGED state

----------------------------------------------------------------------------
(* resourceAwsGlobalAcceleratorAcceleratorUpdate, up to the wait. *)

\* The attributes persisted when Update returns an error in partial mode:
\* the keys marked by d.SetPartial take their planned value.
PartialState(keys) ==
    [k \in DOMAIN prior |-> IF k \in keys THEN plan[k] ELSE prior[k]]

BaseKeys == {"name", "ip_address_type", "enabled"}

\* Mutant: the error of the base update call is not checked.
UpdateCall_IgnoreError(cfg, r) ==
    /\ pc = "idle"
    /\ id # ""
    /\ LET pl  == Planned(state, cfg)
           req == BaseInput(pl)
       IN  /\ plan' = pl
           /\ prior' = state
           /\ desired' = cfg
           /\ op' = "Update"
           /\ IF BaseChanged(state, pl)
              THEN /\ r \in MutationResponses(id)
                   /\ calls' = <<Call("update", id, r, "", req)>>
                   /\ IF r # "ok"
                      THEN /\ pc' = "wait"
                           /\ elapsed' = 0
                           /\ err' = ""
                           /\ UNCHANGED remote
                      ELSE /\ remote' = [remote EXCEPT
                                  !.name = IF req.name = Nil THEN @
                                           ELSE Val(req.name),
                                  !.enabled = IF req.enabled = Nil THEN @
                                              ELSE Val(req.enabled),
                                  !.ip_address_type =
                                      IF req.ip_address_type = Nil THEN @
                                      ELSE req.ip_address_type]
                           /\ pc' = "wait"
                           /\ elapsed' = 0
                           /\ err' = ""
              ELSE /\ r = "error"    \* no call is made: r is not used
                   /\ calls' = <<>>
                   /\ pc' = "attrs"
                   /\ elapsed' = 0
                   /\ err' = ""
                   /\ UNCHANGED remote
    /\ UNCHANGED <<id, state>>
    /\ UNCHANGED <<uniqueIds, tokens>>

UpdateCall(cfg, r) ==
    /\ pc = "idle"
    /\ id # ""
    /\ LET pl  == Planned(state, cfg)
           req == BaseInput(pl)
       IN  /\ plan' = pl
           /\ prior' = state
           /\ desired' = cfg
           /\ op' = "Update"
           /\ IF BaseChanged(state, pl)
              THEN /\ r \in MutationResponses(id)
                   /\ calls' = <<Call("update", id, r, "", req)>>
                   /\ IF r # "ok"
                      THEN /\ Return("UpdateFailed")
                           /\ UNCHANGED remote
                      ELSE /\ remote' = [remote EXCEPT
                                  !.name = IF req.name = Nil THEN @
                                           ELSE Val(req.name),
                                  !.enabled = IF req.enabled = Nil THEN @
                                              ELSE Val(req.enabled),
                                  !.ip_address_type =
                                      IF req.ip_address_type = Nil THEN @
                                      ELSE req.ip_address_type]
                           /\ pc' = "wait"
                           /\ elapsed' = 0
                           /\ err' = ""
              ELSE /\ r = "error"    \* no call is made: r is not used
                   /\ calls' = <<>>
                   /\ pc' = "attrs"
                   /\ elapsed' = 0
                   /\ err' = ""
                   /\ UNCHANGED remote
    /\ UNCHANGED <<id, state>>
    /\ UNCHANGED <<uniqueIds, tokens>>

----------------------------------------------------------------------------
(* The wait of Create and Update: StateChangeConf.WaitForState with         *)
(* Pending {IN_PROGRESS}, Target {DEPLOYED} and the refresh function.       *)

\* Mutant: no status is pending.
Pending_None == {}

\* Mutant: a response without status counts as pending.
Pending_WithEmpty == {AcceleratorStatusInProgress, ""}

Pending == {AcceleratorStatusInProgress}

\* Mutant: the pending status is a target too.
Target_Early == {AcceleratorStatusInProgress, AcceleratorStatusDeployed}

Target == {AcceleratorStatusDeployed}

\* What the wait does with one observation f of the refresh function:
\* an error ends it, an absent entity and a pending status keep it polling,
\* a target status ends it with success, any other status ends it with the
\* unexpected-status error.
WaitForState(f) ==
    IF f.err # "" THEN "DescribeFailed"
    ELSE IF f.result = Nil THEN "continue"
    ELSE IF f.state \in Target THEN "done"
    ELSE IF f.state \in Pending THEN "continue"
    ELSE "UnexpectedStatus"

\* The timeout of the wait has elapsed.
TimedOut == elapsed >= MaxPolls

\* The attributes persisted when a lifecycle call returns an error after
\* its first mutation: all planned values for Create, the keys marked with
\* d.SetPartial for Update (which runs in partial mode).
StateOnError(keys) == IF op = "Create" THEN plan ELSE PartialState(keys)

\* Mutant: a Create whose wait fails unsets the id.
WaitPoll_UnsetId(o) ==
    /\ pc = "wait"
    /\ ~TimedOut
    /\ o \in DescribeResponses(id)
    /\ LET f == resourceAwsGlobalAcceleratorAcceleratorStateRefreshFunc(o)
           w == WaitForState(f)
       IN  /\ calls' = Append(calls, Call("describe", id, o.res, o.status, NoReq))
           /\ IF w = "continue"
              THEN /\ elapsed' = elapsed + 1
                   /\ UNCHANGED <<pc, err, state>>
              ELSE IF w = "done"
              THEN /\ pc' = "attrs"
                   /\ elapsed' = 0
                   /\ UNCHANGED <<err, state>>
              ELSE /\ Return(w)
                   /\ state' = StateOnError(BaseKeys)
    /\ id' = IF op = "Create" /\ pc' = "done" THEN "" ELSE id
    /\ UNCHANGED <<prior, desired, plan, remote, op>>
    /\ UNCHANGED <<uniqueIds, tokens>>

\* One poll of the wait.
WaitPoll(o) ==
    /\ pc = "wait"
    /\ ~TimedOut
    /\ o \in DescribeResponses(id)
    /\ LET f == resourceAwsGlobalAcceleratorAcceleratorStateRefreshFunc(o)
           w == WaitForState(f)
       IN  /\ calls' = Append(calls, Call("describe", id, o.res, o.status, NoReq))
           /\ IF w = "continue"
              THEN /\ elapsed' = elapsed + 1
                   /\ UNCHANGED <<pc, err, state>>
              ELSE IF w = "done"
              THEN /\ pc' = "attrs"
                   /\ elapsed' = 0
                   /\ UNCHANGED <<err, state>>
              ELSE /\ Return(w)
                   /\ state' = StateOnError(BaseKeys)
    /\ UNCHANGED <<id, prior, desired, plan, remote, op>>
    /\ UNCHANGED <<uniqueIds, tokens>>

\* The timeout elapses before a target status was observed.
WaitExpire ==
    /\ pc = "wait"
    /\ TimedOut
    /\ Return("ProvisioningTimeout")
    /\ state' = StateOnError(BaseKeys)
    /\ UNCHANGED <<id, prior, desired, plan, remote, op, calls>>
    /\ UNCHANGED <<uniqueIds, tokens>>

----------------------------------------------------------------------------
(* The attributes step of Create and Update. *)

\* Mutant: Update runs the attributes step only when no base field changed.
NeedsAttributes_ElseIf ==
    IF op = "Create"
    THEN Len(plan.attributes) > 0
    ELSE /\ ~BaseChanged(prior, plan)
         /\ HasChange(prior, plan, "attributes")
         /\ Len(plan.attributes) > 0

\* Whether the call in progress issues UpdateAcceleratorAttributes.
NeedsAttributes ==
    IF op = "Create"
    THEN Len(plan.attributes) > 0
    ELSE HasChange(prior, plan, "attributes") /\ Len(plan.attributes) > 0

\* Mutant: a failed UpdateAcceleratorAttributes is tried again.
AttributesStep_Retry(r) ==
    /\ pc = "attrs"
    /\ IF NeedsAttributes
       THEN LET req == UpdateAttributesInput(plan.attributes[1])
            IN  /\ r \in MutationResponses(id)
                /\ calls' = Append(calls, Call("updateAttributes", id, r, "", req))
                /\ IF r = "ok"
                   THEN /\ remote' = [remote EXCEPT
                               !.attrs = ApplyAttributes(@, req)]
                        /\ pc' = "read"
                        /\ UNCHANGED <<err, state, elapsed>>
                   ELSE UNCHANGED <<pc, err, state, elapsed, remote>>
       ELSE /\ r = "error"
            /\ pc' = "read"
            /\ UNCHANGED <<calls, remote, err, state, elapsed>>
    /\ UNCHANGED <<id, prior, desired, plan, op>>
    /\ UNCHANGED <<uniqueIds, tokens>>

AttributesStep(r) ==
    /\ pc = "attrs"
    /\ IF NeedsAttributes
       THEN LET req == UpdateAttributesInput(plan.attributes[1])
            IN  /\ r \in MutationResponses(id)
                /\ calls' = Append(calls, Call("updateAttributes", id, r, "", req))
                /\ IF r = "ok"
                   THEN /\ remote' = [remote EXCEPT
                               !.attrs = ApplyAttributes(@, req)]
                        /\ pc' = "read"
                        /\ UNCHANGED <<err, state, elapsed>>
                   ELSE /\ Return("AttributesUpdateFailed")
                        /\ state' = StateOnError(BaseKeys)
                        /\ UNCHANGED remote
       ELSE /\ r = "error"    \* no call is made: r is not used
            /\ pc' = "read"
            /\ UNCHANGED <<calls, remote, err, state, elapsed>>
    /\ UNCHANGED <<id, prior, desired, plan, op>>
    /\ UNCHANGED <<uniqueIds, tokens>>

----------------------------------------------------------------------------
(* resourceAwsGlobalAcceleratorAcceleratorRead: as the last step of Create  *)
(* and Update, and as a lifecycle call of its own.                          *)

TerminalRead(o, a) ==
    /\ pc = "read"
    /\ o \in DescribeResponses(id)
    /\ a \in DescribeAttributesResponses
    /\ LET res == ReadResult(id, IF op = "Create" THEN "" ELSE id,
                             plan, prior, o, a)
       IN  /\ id' = res.id
           /\ state' = res.state
           /\ calls' = calls \o res.calls
           /\ Return(res.err)
    /\ UNCHANGED <<prior, desired, plan, remote, op>>
    /\ UNCHANGED <<uniqueIds, tokens>>

ReadCall(o, a) ==
    /\ pc = "idle"
    /\ id # ""
    /\ o \in DescribeResponses(id)
    /\ a \in DescribeAttributesResponses
    /\ LET res == ReadResult(id, id, state, state, o, a)
       IN  /\ id' = res.id
           /\ state' = res.state
           /\ calls' = res.calls
           /\ Return(res.err)
    /\ op' = "Read"
    /\ plan' = state
    /\ prior' = state
    /\ UNCHANGED <<remote, desired>>
    /\ UNCHANGED <<uniqueIds, tokens>>

----------------------------------------------------------------------------
(* resourceAwsGlobalAcceleratorAcceleratorDelete.  When the handler returns *)
(* nil the record is discarded: id and attributes are unset.               *)

\* Mutant: the not-found error of the delete call is returned as a failure.
DeleteError_NoAbsorb(r) ==
    IF r # "ok" THEN "DeleteFailed" ELSE ""

\* The error the handler returns for response r of DeleteAccelerator.
DeleteError(r) ==
    IF r # "ok"
    THEN IF r = "notfound" THEN "" ELSE "DeleteFailed"
    ELSE ""

DeleteCall(r) ==
    /\ pc = "idle"
    /\ id # ""
    /\ r \in DeleteResponses(id)
    /\ op' = "Delete"
    /\ plan' = state
    /\ prior' = state
    /\ calls' = <<Call("delete", id, r, "", NoReq)>>
    /\ remote' = IF r = "ok" THEN NoRemote ELSE remote
    /\ Return(DeleteError(r))
    /\ IF DeleteError(r) = ""
       THEN /\ id' = ""
            /\ state' = EmptyState
       ELSE UNCHANGED <<id, state>>
    /\ UNCHANGED desired
    /\ UNCHANGED <<uniqueIds, tokens>>

----------------------------------------------------------------------------

Next ==
    \/ \E i \in Ids : Import(i)
    \/ \E cfg \in Configs, r \in {"ok", "error"}, i \in CreatedIds :
          CreateCall(cfg, r, i)
    \/ \E cfg \in Configs, r \in {"ok", "error"} : UpdateCall(cfg, r)
    \/ \E o \in DescribeResponses(id) : WaitPoll(o)
    \/ WaitExpire
    \/ \E r \in {"ok", "error"} : AttributesStep(r)
    \/ \E o \in DescribeResponses(id), a \in DescribeAttributesResponses :
          TerminalRead(o, a)
    \/ \E o \in DescribeResponses(id), a \in DescribeAttributesResponses :
          ReadCall(o, a)
    \/ \E r \in {"ok", "notfound", "error"} : DeleteCall(r)
    \/ Finish

Spec == Init /\ [][Next]_vars

\* The wait is a blocking loop with a deadline, and a lifecycle call runs to
\* its return: a step of the call in progress that stays possible is taken.
FairSpec ==
    /\ Spec
    /\ WF_vars(\E o \in DescribeResponses(id) : WaitPoll(o))
    /\ WF_vars(WaitExpire)
    /\ WF_vars(\E r \in {"ok", "error"} : AttributesStep(r))
    /\ WF_vars(\E o \in DescribeResponses(id), a \in DescribeAttributesResponses :
                  TerminalRead(o, a))

----------------------------------------------------------------------------
(* Properties.  They are stated over the log of remote calls of the         *)
(* lifecycle call in progress (or just returned).                           *)

Last(q) == q[Len(q)]

Mutations == {"create", "update", "updateAttributes", "delete"}

\* Entry k of the log is a describe that observed status s.
Observed(k, s) ==
    /\ k \in 1..Len(calls)
    /\ calls[k].call = "describe"
    /\ calls[k].res = "ok"
    /\ calls[k].status = s

\* The log holds a call of kind c.
Issued(c) == \E k \in 1..Len(calls) : calls[k].call = c

\* The step being taken is a poll of the wait.
Polled == pc = "wait" /\ Len(calls') = Len(calls) + 1

\* The base fields of the configuration equal the prior state (an omitted
\* ip_address_type is no difference).
BaseSame ==
    /\ desired.name = prior.name
    /\ desired.enabled = prior.enabled
    /\ desired.ip_address_type \in {"", prior.ip_address_type}

\* The Update in progress is past its attributes step, the terminal Read not
\* yet made.
PastAttributes ==
    /\ op = "Update"
    /\ \/ pc = "read"
       \/ pc = "done" /\ err = "AttributesUpdateFailed"

\* C1: a Read whose describe call reports not-found returns no error, unsets
\* the persisted id and makes no further call.
C1_ReadNotFoundIsAbsence ==
    (pc = "done" /\ op = "Read" /\ calls[1].res = "notfound") =>
        (err = "" /\ id = "" /\ Len(calls) = 1)

\* C2: Delete issues the delete call and returns success when the call
\* succeeds or reports not-found, and a failure on any other error.
C2_DeleteResult ==
    (pc = "done" /\ op = "Delete") =>
        /\ Len(calls) = 1
        /\ calls[1].call = "delete"
        /\ calls[1].res \in {"ok", "notfound"} => err = ""
        /\ calls[1].res = "error" => err = "DeleteFailed"

C2_Witness ==
    /\ pc = "done"
    /\ op = "Delete"
    /\ calls[1].res = "notfound"
    /\ err = ""

\* C3: a mutation is issued only after every earlier mutation of the call
\* succeeded and a later describe observed DEPLOYED; updateAttributes comes
\* directly after the describe that observed DEPLOYED when a create or base
\* update precedes it; describeAttributes is the last call, directly after
\* the describe of the terminal Read, and every mutation precedes both.
C3_MutationsAreSequenced ==
    LET n == Len(calls)
    IN  /\ \A k \in 1..n : calls[k].call = "updateAttributes" =>
              /\ op = "Create" =>
                    calls[1].call = "create" /\ calls[1].res = "ok"
              /\ (op = "Create" \/ Issued("update")) =>
                    Observed(k - 1, AcceleratorStatusDeployed)
        /\ \A j \in 1..n, k \in 1..n :
              (j < k /\ calls[j].call \in Mutations /\ calls[k].call \in Mutations) =>
                  /\ calls[j].res = "ok"
                  /\ \E m \in (j + 1)..(k - 1) :
                        Observed(m, AcceleratorStatusDeployed)
        /\ \A k \in 1..n : calls[k].call = "describeAttributes" =>
              /\ k = n
              /\ k > 1
              /\ calls[k - 1].call = "describe"
              /\ \A j \in 1..n : calls[j].call \in Mutations => j < k - 1

C3_Witness ==
    /\ pc = "done"
    /\ op = "Update"
    /\ err = ""
    /\ calls[1].call = "update"
    /\ Issued("updateAttributes")
    /\ Last(calls).call = "describeAttributes"

\* C4: the wait ends at the first observation of DEPLOYED: while it polls and
\* when it has failed no describe has observed DEPLOYED, and when it has
\* succeeded the last call is the one describe that observed DEPLOYED.
C4_WaitEndsOnFirstTarget ==
    /\ (pc = "wait" \/ (pc = "done" /\ err \in {"ProvisioningTimeout",
                                               "UnexpectedStatus",
                                               "DescribeFailed"})) =>
          \A k \in 1..Len(calls) : ~Observed(k, AcceleratorStatusDeployed)
    /\ (pc = "attrs" /\ Len(calls) > 0) =>
          /\ err = ""
          /\ Observed(Len(calls), AcceleratorStatusDeployed)
          /\ \A k \in 1..(Len(calls) - 1) :
                ~Observed(k, AcceleratorStatusDeployed)

\* The wait of a Create succeeded on the last poll that fits in the timeout,
\* after observing IN_PROGRESS on every earlier one.
C4_Witness ==
    /\ pc = "attrs"
    /\ op = "Create"
    /\ Len(calls) = MaxPolls + 1
    /\ \A k \in 2..MaxPolls : Observed(k, AcceleratorStatusInProgress)
    /\ Observed(MaxPolls + 1, AcceleratorStatusDeployed)

\* The call began with a successful create or base update, and every call
\* since is a describe that observed IN_PROGRESS.
OnlyInProgress ==
    /\ Len(calls) > 1
    /\ calls[1].call \in {"create", "update"}
    /\ calls[1].res = "ok"
    /\ \A k \in 2..Len(calls) : Observed(k, AcceleratorStatusInProgress)

\* C5: a wait always ends, and a wait in which every describe observed
\* IN_PROGRESS ends with the timeout error, which Create or Update returns.
C5_WaitTimesOut ==
    /\ (pc = "wait") ~> (pc # "wait")
    /\ [](OnlyInProgress => pc \in {"wait", "done"})
    /\ []((pc = "done" /\ OnlyInProgress) => err = "ProvisioningTimeout")

C5_Witness ==
    /\ pc = "done"
    /\ op = "Update"
    /\ OnlyInProgress
    /\ err = "ProvisioningTimeout"

\* C6 as stated: an Update in which attributes differs issues
\* updateAttributes, and issues no base update and does no polling when only
\* attributes differs.
C6_AttributesDifferImpliesCall ==
    (PastAttributes /\ desired.attributes # prior.attributes) =>
        /\ Issued("updateAttributes")
        /\ BaseSame => (~Issued("update") /\ ~Issued("describe"))

\* C6 amended: an Update that reaches its attributes step issues
\* updateAttributes when the configured attributes block is present and
\* differs from the prior one, and does not issue it when the block was
\* removed; when no base field differs it issues no base update and does no
\* polling.
C6_PresentAttributesDifferImpliesCall ==
    PastAttributes =>
        /\ (desired.attributes # prior.attributes /\ Len(desired.attributes) > 0) =>
              Issued("updateAttributes")
        /\ (desired.attributes # prior.attributes /\ Len(desired.attributes) = 0) =>
              ~Issued("updateAttributes")
        /\ BaseSame => (~Issued("update") /\ ~Issued("describe"))

C6_Witness ==
    /\ PastAttributes
    /\ pc = "read"
    /\ BaseSame
    /\ desired.attributes # prior.attributes
    /\ Len(desired.attributes) > 0
    /\ Len(prior.attributes) > 0
    /\ Len(calls) = 1
    /\ calls[1].call = "updateAttributes"

\* C7: when Update changed a base field and its updateAttributes call
\* failed, Update returns an error, no call follows the failed one, only one
\* base update was issued, the remote entity holds the new base fields, and
\* a Read that succeeds shows the base fields of the remote entity.
C7_PartialApplication ==
    /\ (pc = "done" /\ op = "Update" /\ Issued("update")
            /\ Last(calls).call = "updateAttributes" /\ Last(calls).res # "ok") =>
          /\ err = "AttributesUpdateFailed"
          /\ \A k \in 2..Len(calls) :
                calls[k].call \notin {"create", "update", "delete"}
          /\ remote.name = desired.name
          /\ remote.enabled = desired.enabled
    /\ (pc = "done" /\ op = "Read" /\ err = "") =>
          /\ state.name = remote.name
          /\ state.enabled = remote.enabled

C7_Witness ==
    /\ pc = "done"
    /\ op = "Update"
    /\ err = "AttributesUpdateFailed"
    /\ calls[1].call = "update"
    /\ prior.name # desired.name
    /\ remote.name = desired.name

\* Nothing of the configuration differs from the prior state.
NothingDiffers == BaseSame /\ desired.attributes = prior.attributes

\* C8: an Update in which nothing differs never waits and issues no
\* mutation; its only calls are those of the terminal Read.
C8_NoChangeNoMutation ==
    (op = "Update" /\ pc # "idle" /\ NothingDiffers) =>
        /\ pc # "wait"
        /\ \A k \in 1..Len(calls) : calls[k].call \notin Mutations
        /\ pc \in {"attrs", "read"} => Len(calls) = 0
        /\ pc = "done" =>
              /\ Len(calls) \in {1, 2}
              /\ calls[1].call = "describe"
              /\ Len(calls) = 2 => calls[2].call = "describeAttributes"

C8_Witness ==
    /\ op = "Update"
    /\ pc = "done"
    /\ NothingDiffers
    /\ err = ""
    /\ Len(calls) = 2

\* C9: a poll of the wait that observes not-found does not end the wait.
C9_NotFoundIsTransient ==
    [][(Polled /\ Last(calls').res = "notfound") =>
          (pc' = "wait" /\ err' = err /\ elapsed' = elapsed + 1)]_vars

\* A wait in which every poll observed not-found ran into the timeout.
C9_Witness ==
    /\ pc = "done"
    /\ op = "Create"
    /\ err = "ProvisioningTimeout"
    /\ Len(calls) = MaxPolls + 1
    /\ \A k \in 2..Len(calls) : calls[k].res = "notfound"

\* C10: a poll that observes a status that is neither IN_PROGRESS nor
\* DEPLOYED ends the call with the unexpected-status error, and a call that
\* ended so made that describe last and issued neither updateAttributes nor
\* describeAttributes.
C10_UnexpectedStatusFails ==
    /\ [][(Polled /\ Last(calls').res = "ok"
             /\ Last(calls').status \notin {AcceleratorStatusInProgress,
                                            AcceleratorStatusDeployed}) =>
            (pc' = "done" /\ err' = "UnexpectedStatus")]_vars
    /\ []((pc = "done" /\ err = "UnexpectedStatus") =>
            /\ Last(calls).call = "describe"
            /\ ~Issued("updateAttributes")
            /\ ~Issued("describeAttributes"))

C10_Witness ==
    /\ pc = "done"
    /\ op = "Create"
    /\ err = "UnexpectedStatus"
    /\ Len(calls) > 2


\* The number of calls of kind c in the log.
Count(c) == Cardinality({k \in 1..Len(calls) : calls[k].call = c})

\* C11: a lifecycle call issues each mutation at most once, whatever the
\* remote answers: the create call only in Create and first, the base update
\* only in Update and first, the delete call only in Delete; only describe
\* is repeated.
C11_MutationsIssuedOnce ==
    /\ \A c \in Mutations \cup {"describeAttributes"} : Count(c) <= 1
    /\ Issued("create") => (op = "Create" /\ calls[1].call = "create")
    /\ Issued("update") => (op = "Update" /\ calls[1].call = "update")
    /\ Issued("delete") => (op = "Delete" /\ Len(calls) = 1)
    /\ Issued("updateAttributes") => op \in {"Create", "Update"}

\* A Create whose updateAttributes call failed after a wait that polled
\* more than once.
C11_Witness ==
    /\ pc = "done"
    /\ op = "Create"
    /\ err = "AttributesUpdateFailed"
    /\ Count("describe") > 1
    /\ Count("create") = 1
    /\ Count("updateAttributes") = 1


\* C12: once set, the persisted id only stays or is unset; it is set by
\* Create (or seeded by import), and Create sets it to the identifier the
\* successful create call returned; every call other than create carries
\* the id of the resource.
C12_IdIsStable ==
    /\ [][id # "" => id' \in {id, ""}]_vars
    /\ [][(id = "" /\ id' # "") =>
            /\ op' \in {"Create", "Import"}
            /\ op' = "Create" =>
                  /\ calls'[1].call = "create"
                  /\ calls'[1].res = "ok"
                  /\ id' = remote'.id]_vars
    /\ [](\A k \in 1..Len(calls) : calls[k].call # "create" =>
            /\ calls[k].id # ""
            /\ id # "" => calls[k].id = id
            /\ op = "Create" => calls[k].id = remote.id
            /\ \A j \in 1..Len(calls) :
                  calls[j].call # "create" => calls[j].id = calls[k].id)

\* An Update of a created resource that issued all its calls with the id
\* the create call returned.
C12_Witness ==
    /\ pc = "done"
    /\ op = "Update"
    /\ uniqueIds > 0
    /\ id \in CreatedIds
    /\ id = remote.id
    /\ Len(calls) > 3
    /\ Issued("update")
    /\ Issued("updateAttributes")


\* C13: when the describe call found the entity and the describeAttributes
\* call failed, the Read returns an error and the id stays set.
C13_AttributesFailureIsError ==
    (pc = "done" /\ Len(calls) > 0
        /\ Last(calls).call = "describeAttributes" /\ Last(calls).res # "ok") =>
        /\ err = "ReadAttributesFailed"
        /\ id # ""
        /\ id = Last(calls).id

C13_Witness ==
    /\ pc = "done"
    /\ op = "Read"
    /\ Len(calls) = 2
    /\ calls[1].res = "ok"
    /\ calls[2].call = "describeAttributes"
    /\ calls[2].res = "error"
    /\ err = "ReadAttributesFailed"


\* C14: when the create call errors, Create has returned the create error,
\* the id is unset and the create call is the only call made.
C14_CreateFailureStops ==
    (op = "Create" /\ Len(calls) > 0 /\ calls[1].res # "ok") =>
        /\ pc = "done"
        /\ err = "CreateFailed"
        /\ id = ""
        /\ Len(calls) = 1
        /\ calls[1].call = "create"

C14_Witness ==
    /\ op = "Create"
    /\ pc = "done"
    /\ calls[1].call = "create"
    /\ calls[1].res = "error"
    /\ err = "CreateFailed"
    /\ id = ""


\* C15: the idempotency token of a create request differs from the token of
\* every create request sent before it, whatever the desired state is.
C15_TokensAreDistinct ==
    [][(pc = "idle" /\ Len(calls') > 0 /\ calls'[1].call = "create") =>
          /\ calls'[1].req.idempotency_token # Nil
          /\ Val(calls'[1].req.idempotency_token) \notin tokens
          /\ Cardinality(tokens') = Cardinality(tokens) + 1]_vars

C15_Witness ==
    /\ op = "Create"
    /\ Len(calls) > 0
    /\ calls[1].call = "create"
    /\ uniqueIds = 2
    /\ Val(calls[1].req.idempotency_token) \in tokens
    /\ Cardinality(tokens) = 2


----------------------------------------------------------------------------
(* The projection of the attributes, applied by Read to every value the    *)
(* AcceleratorAttributes of a response can hold: each field is a pointer   *)
(* that the server may leave nil.                                          *)

Prefixes == {"p1"}

RemoteAttributes ==
    [flow_logs_enabled : {Nil, Ptr(FALSE), Ptr(TRUE)},
     flow_logs_s3_bucket : {Nil, Ptr("")} \cup {Ptr(b) : b \in Buckets},
     flow_logs_s3_prefix : {Nil, Ptr("")} \cup {Ptr(p) : p \in Prefixes}]

\* A record that holds only an id, for an accelerator that exists with any
\* attributes.
FlattenInit ==
    /\ id \in CreatedIds
    /\ state = EmptyState
    /\ prior = EmptyState
    /\ desired = NoConfig
    /\ plan = EmptyState
    /\ \E n \in Names, e \in BOOLEAN, at \in RemoteAttributes :
          remote = [exists |-> TRUE, id |-> id, name |-> n, enabled |-> e,
                    ip_address_type |-> Ptr(IpAddressTypeIpv4), attrs |-> at]
    /\ pc = "idle"
    /\ op = "none"
    /\ err = ""
    /\ calls = <<>>
    /\ elapsed = 0
    /\ uniqueIds = 0
    /\ tokens = {}

FlattenNext ==
    \/ \E o \in DescribeResponses(id), a \in DescribeAttributesResponses :
          ReadCall(o, a)
    \/ Finish

FlattenSpec == FlattenInit /\ [][FlattenNext]_vars

\* C16: when DescribeAcceleratorAttributes succeeds, Read returns no error;
\* a response without attributes is projected to the empty list, and
\* attributes that are present to exactly one element that holds the remote
\* values, with false or "" for each field the server omits.
C16_FlattenAttributes ==
    (pc = "done" /\ op = "Read" /\ Len(calls) > 0
        /\ Last(calls).call = "describeAttributes" /\ Last(calls).res = "ok") =>
        LET p == Last(calls).req.attrs
        IN  /\ err = ""
            /\ p = Nil => state.attributes = <<>>
            /\ p # Nil =>
                  /\ Len(state.attributes) = 1
                  /\ state.attributes[1].flow_logs_enabled =
                        (IF Val(p).flow_logs_enabled = Nil THEN FALSE
                         ELSE Val(Val(p).flow_logs_enabled))
                  /\ state.attributes[1].flow_logs_s3_bucket =
                        (IF Val(p).flow_logs_s3_bucket = Nil THEN ""
                         ELSE Val(Val(p).flow_logs_s3_bucket))
                  /\ state.attributes[1].flow_logs_s3_prefix =
                        (IF Val(p).flow_logs_s3_prefix = Nil THEN ""
                         ELSE Val(Val(p).flow_logs_s3_prefix))

C16_Witness ==
    /\ pc = "done"
    /\ op = "Read"
    /\ Len(calls) = 2
    /\ Last(calls).call = "describeAttributes"
    /\ Last(calls).res = "ok"
    /\ Last(calls).req.attrs # Nil
    /\ Val(Last(calls).req.attrs).flow_logs_enabled = Nil
    /\ Val(Last(calls).req.attrs).flow_logs_s3_bucket # Nil
    /\ Val(Last(calls).req.attrs).flow_logs_s3_prefix = Nil
    /\ Len(state.attributes) = 1
    /\ state.attributes[1].flow_logs_s3_bucket # ""


\* The base update request of the Update in progress.
UpdateRequested == op = "Update" /\ Len(calls) > 0 /\ calls[1].call = "update"

\* C17 as stated: the base update request carries the id and exactly the
\* fields among name, ip_address_type and enabled that differ; an unchanged
\* field is not sent.
C17_OnlyChangedFieldsSent ==
    UpdateRequested =>
        /\ calls[1].id = id
        /\ \A k \in BaseKeys :
              (calls[1].req[k] # Nil) <=> HasChange(prior, plan, k)

\* C17, amended: when a base field differs, the base update request carries
\* the id, the planned name and the planned enabled flag whether or not they
\* differ, and the planned ip_address_type exactly when it is non-empty.
C17_BaseFieldsAlwaysSent ==
    UpdateRequested =>
        /\ BaseChanged(prior, plan)
        /\ calls[1].id = id
        /\ calls[1].req.name = Ptr(plan.name)
        /\ calls[1].req.enabled = Ptr(plan.enabled)
        /\ calls[1].req.ip_address_type =
              (IF plan.ip_address_type # "" THEN Ptr(plan.ip_address_type) ELSE Nil)

C17_Witness ==
    /\ UpdateRequested
    /\ HasChange(prior, plan, "name")
    /\ ~HasChange(prior, plan, "enabled")
    /\ ~HasChange(prior, plan, "ip_address_type")
    /\ calls[1].req.enabled = Ptr(prior.enabled)
    /\ calls[1].req.ip_address_type # Nil


\* The errors Create returns from its wait and from its attributes step.
CreateFailures ==
    {"ProvisioningTimeout", "UnexpectedStatus", "DescribeFailed",
     "AttributesUpdateFailed"}

\* C18: when Create fails in its wait or in its attributes step, the create
\* call had succeeded, the persisted id is the identifier of the entity it
\* created, which still exists, and Create issued no delete and no other
\* compensating call.
C18_FailedCreateKeepsId ==
    (op = "Create" /\ pc = "done" /\ err \in CreateFailures) =>
        /\ calls[1].call = "create"
        /\ calls[1].res = "ok"
        /\ id # ""
        /\ remote.exists
        /\ id = remote.id
        /\ \A k \in 2..Len(calls) :
              calls[k].call \in {"describe", "updateAttributes"}
        /\ Count("updateAttributes") <= 1

C18_Witness ==
    /\ op = "Create"
    /\ pc = "done"
    /\ err = "ProvisioningTimeout"
    /\ calls[1].res = "ok"
    /\ Len(calls) > 1
    /\ id \in CreatedIds
    /\ id = remote.id


\* The Update in progress changes a base field and the attributes.
BothChanged ==
    /\ op = "Update"
    /\ BaseChanged(prior, plan)
    /\ HasChange(prior, plan, "attributes")

\* C19: in an Update that changes a base field and the attributes, an error
\* of the base update call is returned at once with no further call, and a
\* wait that fails returns its error with neither an updateAttributes call
\* nor the describeAttributes call of the terminal Read.
C19_BaseFailureSkipsAttributes ==
    /\ [](BothChanged /\ Len(calls) > 0 /\ calls[1].res # "ok" =>
            /\ calls[1].call = "update"
            /\ pc = "done"
            /\ err = "UpdateFailed"
            /\ Len(calls) = 1)
    /\ [][(BothChanged /\ pc = "wait" /\ pc' = "done") =>
            /\ err' \in {"ProvisioningTimeout", "UnexpectedStatus", "DescribeFailed"}
            /\ \A k \in 1..Len(calls') :
                  calls'[k].call \notin {"updateAttributes", "describeAttributes"}]_vars
    /\ [](BothChanged /\ pc \in {"attrs", "read"} =>
            /\ calls[1].res = "ok"
            /\ Last(calls).call = "updateAttributes" \/ Observed(Len(calls), AcceleratorStatusDeployed))

C19_Witness ==
    /\ BothChanged
    /\ Len(plan.attributes) > 0
    /\ pc = "done"
    /\ calls[1].call = "update"
    /\ calls[1].res = "ok"
    /\ Len(calls) > 1
    /\ err = "UnexpectedStatus"
    /\ ~Issued("updateAttributes")
    /\ ~Issued("describeAttributes")


\* C20: a poll whose describe call fails with an error other than not-found
\* ends the call with the describe error; a call that ended so made that
\* describe last, made no describe after it, and issued neither
\* updateAttributes nor describeAttributes.
C20_DescribeErrorEndsWait ==
    /\ [][(Polled /\ Last(calls').res = "error") =>
            (pc' = "done" /\ err' = "DescribeFailed")]_vars
    /\ []((pc = "done" /\ err = "DescribeFailed") =>
            /\ op \in {"Create", "Update"}
            /\ Last(calls).call = "describe"
            /\ Last(calls).res = "error"
            /\ \A k \in 1..(Len(calls) - 1) : calls[k].res # "error"
            /\ ~Issued("updateAttributes")
            /\ ~Issued("describeAttributes"))
    /\ [](pc = "wait" => \A k \in 1..Len(calls) : calls[k].res # "error")

C20_Witness ==
    /\ pc = "done"
    /\ op = "Update"
    /\ err = "DescribeFailed"
    /\ Len(calls) > 2
    /\ Last(calls).call = "describe"
    /\ Last(calls).res = "error"

====
